---- MODULE Spec2Model ----
(***************************************************************************)
(* fluctour: ItineraryGenerator.generate_itinerary and the MapsClient      *)
(* lookups it drives (src/fluctour/itinerary.py,                           *)
(* src/gmaps_randomizer/maps_client.py).                                   *)
(*                                                                         *)
(* One call of generate_itinerary is followed from its entry to its return *)
(* or to the exception that leaves it.  The call is sequential; it is cut  *)
(* into steps at the MapsClient lookups, because each lookup brings in an  *)
(* answer of the outside world (geocode, nearby search, directions).  All  *)
(* the code between two lookups belongs to the step of the earlier lookup. *)
(*                                                                         *)
(* Geometry.  Every place lies on one meridian (equal lng), and a place is *)
(* its latitude in milliradians.  On one meridian the haversine formula of *)
(* _calculate_distance reduces to c = |lat2 - lat1| (radians), so the      *)
(* distance is r * |dlat| = 6371000 * |dlat_mrad| / 1000 metres, an        *)
(* integer.  A place is identified by its latitude (place_id).             *)
(*                                                                         *)
(* Dates are day numbers counted from start_date.                          *)
(*                                                                         *)
(* The two callers of generate_itinerary, the command line main and the    *)
(* web handler, are followed from their entry to the call (CallerSpec).    *)
(* There a datetime is a number of half days, so that two datetimes can be *)
(* less than one whole day apart.                                          *)
(***************************************************************************)
EXTENDS Integers, Sequences, FiniteSets, TLC

(* ---------------- bounds of the model ---------------- *)
MaxLat == 5
MaxDays == 4
MaxMinStay == 2
MaxStopsArg == 2
MaxConstraints == 2
MaxResults == 2
MaxTime == 4

(* ---------------- program constants ---------------- *)
EarthRadius == 6371000
MinEndpointDistance == 10000
MaxStopsLimit == 10

(* ---------------- input and answer domains ---------------- *)
Lats == 0..MaxLat
NoGeo == -1
ConstraintNames == <<"A", "B", "C", "D">>
ConstraintLists == {SubSeq(ConstraintNames, 1, k) : k \in 0..MaxConstraints}
GeocodeAnswers == Lats \cup {NoGeo}
DirectionsAnswers == {"raise", "empty", "no_legs", "empty_legs", "leg_full", "leg_bare"}

RECURSIVE DistinctSeqs(_, _)
DistinctSeqs(S, n) ==
    IF n = 0 THEN {<<>>}
    ELSE LET shorter == DistinctSeqs(S, n - 1)
         IN shorter \cup {Append(q, x) : q \in {p \in shorter : Len(p) = n - 1},
                                          x \in S}
SearchAnswers ==
    {q \in DistinctSeqs(Lats, MaxResults) :
        \A i, j \in 1..Len(q) : i # j => q[i] # q[j]}

VARIABLES
    pc,
    total_days,
    min_stay,
    max_stops,
    constraint_locations,
    start_geo,
    end_geo,
    max_possible_stops,
    ci,
    constraint_stops,
    num_stops,
    slot,
    search_answer,
    places,
    intermediate_stops,
    all_locations,
    daily_schedule,
    leg,
    suggestions,
    error,
    log,
    caller,
    arg_start_date,
    arg_end_date,
    message

vars == <<pc, total_days, min_stay, max_stops, constraint_locations, start_geo,
          end_geo, max_possible_stops, ci, constraint_stops, num_stops, slot,
          search_answer, places, intermediate_stops, all_locations,
          daily_schedule, leg, suggestions, error, log, caller, arg_start_date,
          arg_end_date, message>>

(* what the caller holds around the call *)
call_context == <<caller, arg_start_date, arg_end_date, message>>

inputs == <<total_days, min_stay, max_stops, constraint_locations, call_context>>

(* the locals and the results of one call of generate_itinerary *)
call_state == <<start_geo, end_geo, max_possible_stops, ci, constraint_stops,
                num_stops, slot, search_answer, places, intermediate_stops,
                all_locations, daily_schedule, leg, suggestions, log>>

(* ---------------- pure helpers ---------------- *)
Abs(x) == IF x < 0 THEN -x ELSE x
Min(a, b) == IF a <= b THEN a ELSE b
Max(a, b) == IF a >= b THEN a ELSE b

(* Python's a // b for b # 0: the floor of a / b. *)
PyFloorDiv(a, b) == IF b > 0 THEN a \div b ELSE (-a) \div (-b)

(* the comparison off by one day *)
TripTooShortOffByOne(total, minstay) == total < minstay - 1

(* lines 33-34: the trip is shorter than the minimum stay *)
TripTooShort(total, minstay) == total < minstay

(* no days reserved for the endpoints *)
StopCapacityNoReserve(maxstops, total, minstay) ==
    Min(maxstops, PyFloorDiv(total, minstay))

(* days reserved for one endpoint only *)
StopCapacityOneEndpoint(maxstops, total, minstay) ==
    LET available_days == total - minstay
    IN Min(maxstops, PyFloorDiv(available_days, minstay))

(* lines 91-94: max_possible_stops, for minstay # 0 *)
StopCapacity(maxstops, total, minstay) ==
    LET available_days == total - 2 * minstay
    IN Min(maxstops, PyFloorDiv(available_days, minstay))

(* _calculate_distance, metres *)
_calculate_distance(loc1, loc2) == (EarthRadius * Abs(loc2 - loc1)) \div 1000

(* the detour bound taken strictly *)
_is_location_reasonable_strict(s, e, location) ==
    2 * (_calculate_distance(s, location) + _calculate_distance(location, e))
        < _calculate_distance(s, e) * 3

(* _is_location_reasonable: total_with_stop <= direct_distance * 1.5 *)
_is_location_reasonable(s, e, location) ==
    LET start_to_location == _calculate_distance(s, location)
        location_to_end == _calculate_distance(location, e)
        direct_distance == _calculate_distance(s, e)
        total_with_stop == start_to_location + location_to_end
    IN 2 * total_with_stop <= direct_distance * 3

(* route_position as a fraction num/den; 0 when start and end coincide *)
route_position(s, e, stop) ==
    LET start_to_stop == _calculate_distance(s, stop)
        start_to_end == _calculate_distance(s, e)
    IN IF start_to_end > 0 THEN [num |-> start_to_stop, den |-> start_to_end]
       ELSE [num |-> 0, den |-> 1]

FracLess(p, q) == p.num * q.den < q.num * p.den

(* the new stop goes before the stops of equal position *)
RECURSIVE InsertByKeyBeforeEqual(_, _, _, _)
InsertByKeyBeforeEqual(s, e, sorted, x) ==
    IF sorted = <<>> THEN <<x>>
    ELSE IF ~FracLess(route_position(s, e, Head(sorted)), route_position(s, e, x))
         THEN <<x>> \o sorted
         ELSE <<Head(sorted)>> \o InsertByKeyBeforeEqual(s, e, Tail(sorted), x)

(* sorted(stops, key=route_position): stable, ascending *)
RECURSIVE InsertByKey(_, _, _, _)
InsertByKey(s, e, sorted, x) ==
    IF sorted = <<>> THEN <<x>>
    ELSE IF FracLess(route_position(s, e, x), route_position(s, e, Head(sorted)))
         THEN <<x>> \o sorted
         ELSE <<Head(sorted)>> \o InsertByKey(s, e, Tail(sorted), x)

RECURSIVE _sort_stops_by_route(_, _, _)
_sort_stops_by_route(s, e, stops) ==
    IF stops = <<>> THEN <<>>
    ELSE InsertByKey(s, e,
                     _sort_stops_by_route(s, e, SubSeq(stops, 1, Len(stops) - 1)),
                     stops[Len(stops)])

(* intermediate_stops[:max_possible_stops] for max_possible_stops > 0 *)
Truncate(stops, n) == SubSeq(stops, 1, Min(Len(stops), n))

(* the detour bound of the constraints is applied to the candidates too *)
RECURSIVE FirstFarPlaceWithinDetour(_, _, _)
FirstFarPlaceWithinDetour(s, e, nearby_places) ==
    IF nearby_places = <<>> THEN <<>>
    ELSE IF /\ _calculate_distance(Head(nearby_places), s) > MinEndpointDistance
            /\ _calculate_distance(Head(nearby_places), e) > MinEndpointDistance
            /\ _is_location_reasonable(s, e, Head(nearby_places))
         THEN <<Head(nearby_places)>>
         ELSE FirstFarPlaceWithinDetour(s, e, Tail(nearby_places))

(* every such place of the search answer is taken, not only the first *)
RECURSIVE AllFarPlaces(_, _, _)
AllFarPlaces(s, e, nearby_places) ==
    IF nearby_places = <<>> THEN <<>>
    ELSE (IF /\ _calculate_distance(Head(nearby_places), s) > MinEndpointDistance
             /\ _calculate_distance(Head(nearby_places), e) > MinEndpointDistance
          THEN <<Head(nearby_places)>>
          ELSE <<>>)
         \o AllFarPlaces(s, e, Tail(nearby_places))

(* the last such place of the search answer instead of the first *)
RECURSIVE LastFarPlace(_, _, _)
LastFarPlace(s, e, nearby_places) ==
    IF nearby_places = <<>> THEN <<>>
    ELSE LET later == LastFarPlace(s, e, Tail(nearby_places))
         IN IF later # <<>> THEN later
            ELSE IF /\ _calculate_distance(Head(nearby_places), s)
                           > MinEndpointDistance
                    /\ _calculate_distance(Head(nearby_places), e)
                           > MinEndpointDistance
                 THEN <<Head(nearby_places)>>
                 ELSE <<>>

(* the first place of the search answer farther than 10000 m from both ends *)
RECURSIVE FirstFarPlace(_, _, _)
FirstFarPlace(s, e, nearby_places) ==
    IF nearby_places = <<>> THEN <<>>
    ELSE IF /\ _calculate_distance(Head(nearby_places), s) > MinEndpointDistance
            /\ _calculate_distance(Head(nearby_places), e) > MinEndpointDistance
         THEN <<Head(nearby_places)>>
         ELSE FirstFarPlace(s, e, Tail(nearby_places))

(* the next location starts on the day after the end of the current one *)
RECURSIVE DistributeFromNextDay(_, _, _, _, _)
DistributeFromNextDay(locations, i, base, remaining_days, current_date) ==
    IF i > Len(locations) THEN <<>>
    ELSE LET last == (i = Len(locations))
             extra_days == IF remaining_days > 0 /\ ~last
                           THEN Min(remaining_days, 1) ELSE 0
             left == remaining_days - extra_days
             days_here == base + extra_days + (IF last THEN left ELSE 0)
             end_date_here == current_date + days_here
         IN <<[location |-> locations[i],
               start_date |-> current_date,
               end_date |-> end_date_here,
               days |-> days_here]>>
            \o DistributeFromNextDay(locations, i + 1, base, left,
                                     end_date_here + 1)

(* the last location does not take the days left over *)
RECURSIVE DistributeFromNoAbsorb(_, _, _, _, _)
DistributeFromNoAbsorb(locations, i, base, remaining_days, current_date) ==
    IF i > Len(locations) THEN <<>>
    ELSE LET last == (i = Len(locations))
             extra_days == IF remaining_days > 0 /\ ~last
                           THEN Min(remaining_days, 1) ELSE 0
             left == remaining_days - extra_days
             days_here == base + extra_days
             end_date_here == current_date + days_here
         IN <<[location |-> locations[i],
               start_date |-> current_date,
               end_date |-> end_date_here,
               days |-> days_here]>>
            \o DistributeFromNoAbsorb(locations, i + 1, base, left, end_date_here)

(* _distribute_days: the loop over the locations, from index i on *)
RECURSIVE DistributeFrom(_, _, _, _, _)
DistributeFrom(locations, i, base, remaining_days, current_date) ==
    IF i > Len(locations) THEN <<>>
    ELSE LET last == (i = Len(locations))
             extra_days == IF remaining_days > 0 /\ ~last
                           THEN Min(remaining_days, 1) ELSE 0
             left == remaining_days - extra_days
             days_here == base + extra_days + (IF last THEN left ELSE 0)
             end_date_here == current_date + days_here
         IN <<[location |-> locations[i],
               start_date |-> current_date,
               end_date |-> end_date_here,
               days |-> days_here]>>
            \o DistributeFrom(locations, i + 1, base, left, end_date_here)

(* the loop starts at the second location *)
_distribute_days_from_second(locations, start_date, total, minstay) ==
    IF Len(locations) = 0 THEN <<>>
    ELSE LET base_days_per_location == Max(minstay, total \div Len(locations))
             remaining_days == total - base_days_per_location * Len(locations)
         IN DistributeFrom(locations, 2, base_days_per_location,
                           remaining_days, start_date)

(* the base is the even share, without the minimum stay *)
_distribute_days_even_share(locations, start_date, total, minstay) ==
    IF Len(locations) = 0 THEN <<>>
    ELSE LET base_days_per_location == total \div Len(locations)
             remaining_days == total - base_days_per_location * Len(locations)
         IN DistributeFrom(locations, 1, base_days_per_location,
                           remaining_days, start_date)

(* _distribute_days: lines 254-256, then the loop *)
_distribute_days(locations, start_date, total, minstay) ==
    IF Len(locations) = 0 THEN <<>>
    ELSE LET base_days_per_location == Max(minstay, total \div Len(locations))
             remaining_days == total - base_days_per_location * Len(locations)
         IN DistributeFrom(locations, 1, base_days_per_location,
                           remaining_days, start_date)

(* ---------------- the log of MapsClient lookups ---------------- *)
GeocodeCall(name, answer) ==
    [op |-> "geocode", name |-> name, a |-> answer, b |-> 0, ok |-> answer # NoGeo]
DirectionsCall(from, to, answered) ==
    [op |-> "directions", name |-> "", a |-> from, b |-> to, ok |-> answered]
(* the search point is start + (end - start) * i / (n + 1) = a / b *)
SearchCall(s, e, i, n) ==
    [op |-> "search", name |-> "", a |-> s * (n + 1) + (e - s) * i, b |-> n + 1,
     ok |-> TRUE]

(* ---------------- Init ---------------- *)
Init ==
    /\ pc = "call"
    /\ total_days \in -1..MaxDays
    /\ min_stay \in -1..MaxMinStay
    /\ max_stops \in -1..MaxStopsArg
    /\ constraint_locations \in ConstraintLists
    /\ start_geo = NoGeo
    /\ end_geo = NoGeo
    /\ max_possible_stops = 0
    /\ ci = 0
    /\ constraint_stops = <<>>
    /\ num_stops = 0
    /\ slot = 0
    /\ search_answer = <<>>
    /\ places = <<>>
    /\ intermediate_stops = <<>>
    /\ all_locations = <<>>
    /\ daily_schedule = <<>>
    /\ leg = 0
    /\ suggestions = <<>>
    /\ error = "none"
    /\ log = <<>>
    /\ caller = "direct"
    /\ arg_start_date = 0
    /\ arg_end_date = 2 * total_days
    /\ message = <<>>

(* ---------------- steps of generate_itinerary ---------------- *)

(* the exception leaves generate_itinerary: nothing is returned *)
Fail(kind) ==
    /\ pc' = "failed"
    /\ error' = kind

(* lines 57-63: all_locations and _distribute_days, then on to the first leg *)
Assemble(e, stops) ==
    LET route == <<start_geo>> \o stops \o <<e>>
    IN /\ intermediate_stops' = stops
       /\ all_locations' = route
       /\ daily_schedule' = _distribute_days(route, 0, total_days, min_stay)
       /\ leg' = 1
       /\ pc' = "travel"

(* lines 122-127: sort, truncate, return to generate_itinerary *)
ReturnStops(stops) ==
    Assemble(end_geo,
             Truncate(_sort_stops_by_route(start_geo, end_geo, stops),
                      max_possible_stops))

(* the accepted constraint stops are not taken off the capacity *)
AfterConstraintsIgnoreAccepted(accepted) ==
    LET remaining_stops == max_possible_stops
    IN IF remaining_stops > 0
       THEN /\ num_stops' = remaining_stops
            /\ slot' = 1
            /\ pc' = "places"
            /\ UNCHANGED <<intermediate_stops, all_locations, daily_schedule, leg>>
       ELSE /\ ReturnStops(accepted)
            /\ UNCHANGED <<num_stops, slot>>

(* lines 114-120: the slots left to _find_places_along_route *)
AfterConstraints(accepted) ==
    LET remaining_stops == max_possible_stops - Len(accepted)
    IN IF remaining_stops > 0
       THEN /\ num_stops' = remaining_stops
            /\ slot' = 1
            /\ pc' = "places"
            /\ UNCHANGED <<intermediate_stops, all_locations, daily_schedule, leg>>
       ELSE /\ ReturnStops(accepted)
            /\ UNCHANGED <<num_stops, slot>>

(* lines 33-37 *)
RaiseTripTooShort ==
    /\ pc = "call"
    /\ TripTooShort(total_days, min_stay)
    /\ Fail("ValueError")
    /\ UNCHANGED <<inputs, search_answer,
                   start_geo, end_geo, max_possible_stops, ci,
                   constraint_stops, num_stops, slot, places, intermediate_stops,
                   all_locations, daily_schedule, leg, suggestions, log>>

(* line 40 *)
GeocodeStart(answer) ==
    /\ pc = "call"
    /\ ~TripTooShort(total_days, min_stay)
    /\ log' = Append(log, GeocodeCall("start", answer))
    /\ IF answer = NoGeo
       THEN /\ Fail("GeocodeError")
            /\ UNCHANGED start_geo
       ELSE /\ start_geo' = answer
            /\ pc' = "geocode_end"
            /\ UNCHANGED error
    /\ UNCHANGED <<inputs, search_answer,
                   end_geo, max_possible_stops, ci, constraint_stops,
                   num_stops, slot, places, intermediate_stops, all_locations,
                   daily_schedule, leg, suggestions>>

(* line 41, then _find_intermediate_stops up to its first lookup (lines 90-97) *)
GeocodeEnd(answer) ==
    /\ pc = "geocode_end"
    /\ log' = Append(log, GeocodeCall("end", answer))
    /\ UNCHANGED <<inputs, search_answer,
                   start_geo, ci, constraint_stops, num_stops, slot,
                   places, suggestions>>
    /\ IF answer = NoGeo
       THEN /\ Fail("GeocodeError")
            /\ UNCHANGED <<end_geo, max_possible_stops, intermediate_stops,
                           all_locations, daily_schedule, leg>>
       ELSE /\ end_geo' = answer
            /\ IF min_stay = 0
               THEN /\ Fail("ZeroDivisionError")
                    /\ UNCHANGED <<max_possible_stops, intermediate_stops,
                                   all_locations, daily_schedule, leg>>
               ELSE LET capacity == StopCapacity(max_stops, total_days, min_stay)
                    IN /\ max_possible_stops' = capacity
                       /\ UNCHANGED error
                       /\ IF capacity <= 0
                          THEN Assemble(answer, <<>>)
                          ELSE /\ pc' = "route_info"
                               /\ UNCHANGED <<intermediate_stops, all_locations,
                                              daily_schedule, leg>>

(* lines 99-112: get_directions, then into the constraints or the gap filling *)
RouteInfo(answered) ==
    /\ pc = "route_info"
    /\ log' = Append(log, DirectionsCall(start_geo, end_geo, answered))
    /\ UNCHANGED <<inputs, search_answer,
                   start_geo, end_geo, max_possible_stops,
                   constraint_stops, places, suggestions>>
    /\ IF ~answered
       THEN /\ Fail("DirectionsError")
            /\ UNCHANGED <<ci, num_stops, slot, intermediate_stops,
                           all_locations, daily_schedule, leg>>
       ELSE /\ UNCHANGED error
            /\ IF Len(constraint_locations) > 0
               THEN /\ ci' = 1
                    /\ pc' = "constraints"
                    /\ UNCHANGED <<num_stops, slot, intermediate_stops,
                                   all_locations, daily_schedule, leg>>
               ELSE /\ AfterConstraints(<<>>)
                    /\ UNCHANGED ci

(* the geocoding error of a constraint is not caught *)
ProcessConstraintNoCatch(answer) ==
    /\ pc = "constraints"
    /\ log' = Append(log, GeocodeCall(constraint_locations[ci], answer))
    /\ IF answer = NoGeo
       THEN /\ Fail("GeocodeError")
            /\ UNCHANGED <<ci, constraint_stops, num_stops, slot,
                           intermediate_stops, all_locations, daily_schedule, leg>>
       ELSE LET accepted == _is_location_reasonable(start_geo, end_geo, answer)
                kept == IF accepted THEN Append(constraint_stops, answer)
                        ELSE constraint_stops
                full == accepted /\ Len(kept) >= max_possible_stops
            IN /\ constraint_stops' = kept
               /\ UNCHANGED error
               /\ IF ~full /\ ci < Len(constraint_locations)
                  THEN /\ ci' = ci + 1
                       /\ UNCHANGED <<pc, num_stops, slot, intermediate_stops,
                                      all_locations, daily_schedule, leg>>
                  ELSE /\ AfterConstraints(kept)
                       /\ UNCHANGED ci
    /\ UNCHANGED <<inputs, search_answer,
                   start_geo, end_geo, max_possible_stops, places,
                   suggestions>>

(* the loop does not break when the capacity is reached *)
ProcessConstraintNoBreak(answer) ==
    /\ pc = "constraints"
    /\ log' = Append(log, GeocodeCall(constraint_locations[ci], answer))
    /\ LET accepted == /\ answer # NoGeo
                       /\ _is_location_reasonable(start_geo, end_geo, answer)
           kept == IF accepted THEN Append(constraint_stops, answer)
                   ELSE constraint_stops
       IN /\ constraint_stops' = kept
          /\ IF ci < Len(constraint_locations)
             THEN /\ ci' = ci + 1
                  /\ UNCHANGED <<pc, num_stops, slot, intermediate_stops,
                                 all_locations, daily_schedule, leg>>
             ELSE /\ AfterConstraints(kept)
                  /\ UNCHANGED ci
    /\ UNCHANGED <<inputs, search_answer,
                   start_geo, end_geo, max_possible_stops, places,
                   suggestions, error>>

(* lines 140-157: one turn of the loop of _process_constraint_locations *)
ProcessConstraint(answer) ==
    /\ pc = "constraints"
    /\ log' = Append(log, GeocodeCall(constraint_locations[ci], answer))
    /\ LET accepted == /\ answer # NoGeo
                       /\ _is_location_reasonable(start_geo, end_geo, answer)
           kept == IF accepted THEN Append(constraint_stops, answer)
                   ELSE constraint_stops
           full == accepted /\ Len(kept) >= max_possible_stops
       IN /\ constraint_stops' = kept
          /\ IF ~full /\ ci < Len(constraint_locations)
             THEN /\ ci' = ci + 1
                  /\ UNCHANGED <<pc, num_stops, slot, intermediate_stops,
                                 all_locations, daily_schedule, leg>>
             ELSE /\ AfterConstraints(kept)
                  /\ UNCHANGED ci
    /\ UNCHANGED <<inputs, search_answer,
                   start_geo, end_geo, max_possible_stops, places,
                   suggestions, error>>

(* lines 169-180: one turn of the loop of _find_places_along_route, up to the
   answer of search_places_in_area *)
SearchSlot(answer) ==
    /\ pc = "places"
    /\ log' = Append(log, SearchCall(start_geo, end_geo, slot, num_stops))
    /\ search_answer' = answer
    /\ pc' = "pick"
    /\ UNCHANGED <<inputs, start_geo, end_geo, max_possible_stops, ci,
                   constraint_stops, num_stops, slot, places, intermediate_stops,
                   all_locations, daily_schedule, leg, suggestions, error>>

(* lines 182-192: the scan of nearby_places, then the next turn or the return
   (nearby_places lives until the next turn assigns it or the function
   returns) *)
PickPlace ==
    /\ pc = "pick"
    /\ LET found == places \o FirstFarPlace(start_geo, end_geo, search_answer)
       IN /\ places' = found
          /\ IF slot < num_stops
             THEN /\ slot' = slot + 1
                  /\ pc' = "places"
                  /\ UNCHANGED <<intermediate_stops, all_locations,
                                 daily_schedule, leg>>
             ELSE /\ ReturnStops(constraint_stops \o found)
                  /\ UNCHANGED slot
    /\ search_answer' = IF slot < num_stops THEN search_answer ELSE <<>>
    /\ UNCHANGED <<inputs, start_geo, end_geo, max_possible_stops, ci,
                   constraint_stops, num_stops, suggestions, error, log>>

(* lines 297-322: one turn of the loop of _generate_travel_suggestions,
   and the return of generate_itinerary after the last one *)
TravelLeg(answer) ==
    /\ pc = "travel"
    /\ LET current_loc == all_locations[leg]
           next_loc == all_locations[leg + 1]
           suggestion(text) == [from |-> current_loc, to |-> next_loc,
                                distance |-> text, duration |-> text,
                                mode |-> "driving"]
       IN /\ log' = Append(log, DirectionsCall(current_loc, next_loc,
                                               answer # "raise"))
          /\ IF answer = "raise"
             THEN Fail("DirectionsError") /\ UNCHANGED <<suggestions, leg>>
             ELSE IF answer = "empty_legs"
             THEN Fail("IndexError") /\ UNCHANGED <<suggestions, leg>>
             ELSE /\ suggestions' =
                       IF answer = "leg_full"
                       THEN Append(suggestions, suggestion("text"))
                       ELSE IF answer = "leg_bare"
                       THEN Append(suggestions, suggestion("Unknown"))
                       ELSE suggestions
                  /\ UNCHANGED error
                  /\ IF leg < Len(all_locations) - 1
                     THEN leg' = leg + 1 /\ UNCHANGED pc
                     ELSE pc' = "done" /\ UNCHANGED leg
    /\ UNCHANGED <<inputs, search_answer,
                   start_geo, end_geo, max_possible_stops, ci,
                   constraint_stops, num_stops, slot, places, intermediate_stops,
                   all_locations, daily_schedule>>

Next ==
    \/ RaiseTripTooShort
    \/ \E answer \in GeocodeAnswers : GeocodeStart(answer)
    \/ \E answer \in GeocodeAnswers : GeocodeEnd(answer)
    \/ \E answered \in BOOLEAN : RouteInfo(answered)
    \/ \E answer \in GeocodeAnswers : ProcessConstraint(answer)
    \/ \E answer \in SearchAnswers : SearchSlot(answer)
    \/ PickPlace
    \/ \E answer \in DirectionsAnswers : TravelLeg(answer)

Spec == Init /\ [][Next]_vars

(* ---------------- the callers of generate_itinerary ---------------- *)

(* a date string that parse_date does not accept *)
BadDate == -1
Times == 0..MaxTime
DateArgs == Times \cup {BadDate}

NoError == ""
ParseError == "Unknown string format"

(* timedelta.days of e - s, for datetimes counted in half days *)
DaysBetween(s, e) == (e - s) \div 2

(* the min_stay comparison comes first *)
validate_itinerary_params_min_stay_first(maxstops, minstay) ==
    IF minstay < 1 THEN "min_stay must be at least 1 day"
    ELSE IF maxstops < 0 THEN "max_stops must be non-negative"
    ELSE IF maxstops > MaxStopsLimit
    THEN "max_stops should not exceed 10 for reasonable performance"
    ELSE NoError

(* validate_itinerary_params: the message of the ValueError raised, NoError
   when the function returns *)
validate_itinerary_params(maxstops, minstay) ==
    IF maxstops < 0 THEN "max_stops must be non-negative"
    ELSE IF minstay < 1 THEN "min_stay must be at least 1 day"
    ELSE IF maxstops > MaxStopsLimit
    THEN "max_stops should not exceed 10 for reasonable performance"
    ELSE NoError

(* f"Invalid date format: {e}" *)
InvalidDateFormat(e) == <<"Invalid date format: ", e>>

(* equal dates pass the first comparison *)
validate_dates_strict_order(s, e) ==
    LET raised == IF s = BadDate \/ e = BadDate THEN ParseError
                  ELSE IF s > e THEN "Start date must be before end date"
                  ELSE IF DaysBetween(s, e) < 1
                  THEN "Trip must be at least 1 day long"
                  ELSE NoError
    IN IF raised = NoError THEN [ok |-> TRUE, message |-> <<>>]
       ELSE [ok |-> FALSE, message |-> InvalidDateFormat(raised)]

(* validate_dates: every exception of the try block, its own ValueErrors
   included, is raised again as ValueError("Invalid date format: ...") *)
validate_dates(s, e) ==
    LET raised == IF s = BadDate \/ e = BadDate THEN ParseError
                  ELSE IF s >= e THEN "Start date must be before end date"
                  ELSE IF DaysBetween(s, e) < 1
                  THEN "Trip must be at least 1 day long"
                  ELSE NoError
    IN IF raised = NoError THEN [ok |-> TRUE, message |-> <<>>]
       ELSE [ok |-> FALSE, message |-> InvalidDateFormat(raised)]

CallerInit ==
    /\ pc \in {"cli_params", "web_api"}
    /\ caller = IF pc = "cli_params" THEN "cli" ELSE "web"
    /\ arg_start_date \in DateArgs
    /\ arg_end_date \in DateArgs
    /\ min_stay \in -1..MaxMinStay
    /\ max_stops \in -1..(MaxStopsLimit + 1)
    /\ constraint_locations = <<>>
    /\ total_days = 0
    /\ start_geo = NoGeo
    /\ end_geo = NoGeo
    /\ max_possible_stops = 0
    /\ ci = 0
    /\ constraint_stops = <<>>
    /\ num_stops = 0
    /\ slot = 0
    /\ search_answer = <<>>
    /\ places = <<>>
    /\ intermediate_stops = <<>>
    /\ all_locations = <<>>
    /\ daily_schedule = <<>>
    /\ leg = 0
    /\ suggestions = <<>>
    /\ error = "none"
    /\ log = <<>>
    /\ message = <<>>

(* generate_itinerary is entered; line 33 of itinerary.py takes total_days *)
CallGenerate ==
    /\ pc' = "call"
    /\ total_days' = DaysBetween(arg_start_date, arg_end_date)
    /\ UNCHANGED <<error, message>>

(* main: validate_itinerary_params(args) *)
CliValidateParams ==
    /\ pc = "cli_params"
    /\ LET raised == validate_itinerary_params(max_stops, min_stay)
       IN IF raised # NoError
          THEN /\ Fail("ValueError")
               /\ message' = <<raised>>
          ELSE /\ pc' = "cli_dates"
               /\ UNCHANGED <<error, message>>
    /\ UNCHANGED <<total_days, min_stay, max_stops, constraint_locations, caller,
                   arg_start_date, arg_end_date, call_state>>

(* main: validate_dates(args.start_date, args.end_date), then the call *)
CliValidateDates ==
    /\ pc = "cli_dates"
    /\ LET result == validate_dates(arg_start_date, arg_end_date)
       IN IF ~result.ok
          THEN /\ Fail("ValueError")
               /\ message' = result.message
               /\ UNCHANGED total_days
          ELSE CallGenerate
    /\ UNCHANGED <<min_stay, max_stops, constraint_locations, caller,
                   arg_start_date, arg_end_date, call_state>>

(* generate_itinerary_api: the dates are parsed and compared, max_stops and
   min_stay are converted with int() and passed on *)
WebHandler ==
    /\ pc = "web_api"
    /\ IF arg_start_date = BadDate \/ arg_end_date = BadDate
       THEN /\ Fail("HTTP 400")
            /\ message' = InvalidDateFormat(ParseError)
            /\ UNCHANGED total_days
       ELSE IF arg_start_date >= arg_end_date
       THEN /\ Fail("HTTP 400")
            /\ message' = <<"Start date must be before end date">>
            /\ UNCHANGED total_days
       ELSE CallGenerate
    /\ UNCHANGED <<min_stay, max_stops, constraint_locations, caller,
                   arg_start_date, arg_end_date, call_state>>

CallerNext ==
    \/ CliValidateParams
    \/ CliValidateDates
    \/ WebHandler

CallerSpec == CallerInit /\ [][CallerNext]_vars

(* ---------------- properties ---------------- *)

Returned == pc = "done"

Range(q) == {q[i] : i \in DOMAIN q}

RECURSIVE SumDays(_)
SumDays(schedule) ==
    IF schedule = <<>> THEN 0 ELSE Head(schedule).days + SumDays(Tail(schedule))

(* the lookups of the log with a given op *)
Calls(op) == {k \in DOMAIN log : log[k].op = op}

(* The log starts with the geocoding of start and of end and, when the stop
   selector has capacity, its directions lookup; the constraints follow,
   constraint j at position j + 3. *)
ConstraintCalls ==
    {k \in DOMAIN log : k > 3 /\ log[k].op = "geocode"}

(* distance(start, x) + distance(x, end) <= 1.5 * distance(start, end) *)
WithinDetour(x) ==
    2 * (_calculate_distance(start_geo, x) + _calculate_distance(x, end_geo))
        <= 3 * _calculate_distance(start_geo, end_geo)

(* C1: in every returned itinerary the day counts of daily_schedule sum
   exactly to total_days. *)
C1_DaysSumToTotal ==
    Returned => SumDays(daily_schedule) = total_days

(* a returned itinerary with one intermediate stop whose first entry got the
   extra day *)
C1_Witness ==
    /\ Returned
    /\ Len(daily_schedule) = 3
    /\ daily_schedule[1].days = daily_schedule[3].days + 1
    /\ SumDays(daily_schedule) = total_days

(* parameters that validate_itinerary_params accepts *)
ValidParams == min_stay >= 1 /\ max_stops >= 0

(* C2: every schedule entry of every returned itinerary has a day count of
   at least 1, the last entry and trips with total_days = min_stay included
   (taken for valid parameters only). *)
C2_EveryEntryAtLeastOneDay ==
    (Returned /\ ValidParams)
        => \A i \in DOMAIN daily_schedule : daily_schedule[i].days >= 1

(* C3: locations is start, then the intermediate stops, then end (at least 2
   elements), and daily_schedule has one entry per location in that order. *)
C3_LocationsAndScheduleAligned ==
    Returned =>
        /\ Len(all_locations) >= 2
        /\ log[1].name = "start" /\ all_locations[1] = log[1].a
        /\ log[2].name = "end" /\ all_locations[Len(all_locations)] = log[2].a
        /\ SubSeq(all_locations, 2, Len(all_locations) - 1) = intermediate_stops
        /\ \A i \in 2..(Len(all_locations) - 1) :
              all_locations[i] \in Range(constraint_stops) \cup Range(places)
        /\ Len(daily_schedule) = Len(all_locations)
        /\ \A i \in DOMAIN all_locations :
              daily_schedule[i].location = all_locations[i]

(* a returned itinerary with two intermediate stops between distinct ends *)
C3_Witness ==
    /\ Returned
    /\ Len(all_locations) = 4
    /\ start_geo # end_geo
    /\ daily_schedule[1].location = start_geo
    /\ daily_schedule[4].location = end_geo

(* C4: travel_suggestions holds exactly one leg per consecutive pair of
   locations, whatever the directions lookup returns (taken for valid
   parameters only). *)
C4_OneLegPerPair ==
    (Returned /\ ValidParams) =>
        /\ Len(suggestions) = Len(all_locations) - 1
        /\ \A i \in DOMAIN suggestions :
              /\ suggestions[i].from = all_locations[i]
              /\ suggestions[i].to = all_locations[i + 1]
              /\ suggestions[i].mode = "driving"

(* C5: with total_days < min_stay generate_itinerary raises the validation
   error before any lookup is made, and returns nothing. *)
C5_TooShortRaisesBeforeLookups ==
    (total_days < min_stay) =>
        /\ log = <<>>
        /\ pc \in {"call", "failed"}
        /\ pc = "call" => ENABLED RaiseTripTooShort
        /\ pc = "failed" => error = "ValueError"
        /\ all_locations = <<>> /\ daily_schedule = <<>> /\ suggestions = <<>>

(* the validation error has been raised *)
C5_Witness ==
    /\ total_days < min_stay
    /\ pc = "failed"
    /\ error = "ValueError"
    /\ log = <<>>

(* C6: the number of intermediate stops of a returned itinerary exceeds
   neither max_stops nor floor((total_days - 2*min_stay) / min_stay), the
   latter taken as 0 when negative (taken for min_stay >= 1 only). *)
C6_StopsWithinBothBounds ==
    (Returned /\ min_stay >= 1) =>
        /\ Len(intermediate_stops) <= max_stops
        /\ Len(intermediate_stops)
              <= Max(0, PyFloorDiv(total_days - 2 * min_stay, min_stay))

(* C7: when min(max_stops, floor((total_days - 2*min_stay)/min_stay)) <= 0
   the stop selector returns no stops, raises nothing and makes no lookup;
   the itinerary has exactly 2 schedule entries summing to total_days. *)
C7_NoCapacity ==
    LET floor == PyFloorDiv(total_days - 2 * min_stay, min_stay)
        capacity == IF max_stops <= floor THEN max_stops ELSE floor
    IN (min_stay # 0 /\ end_geo # NoGeo /\ capacity <= 0) =>
        /\ pc \in {"travel", "done", "failed"}
        /\ intermediate_stops = <<>>
        /\ constraint_stops = <<>> /\ places = <<>>
        /\ Calls("search") = {}
        /\ Calls("geocode") = {1, 2}
        /\ Calls("directions") = IF pc = "travel" THEN {} ELSE {3}
        /\ \A k \in Calls("directions") : log[k].a = start_geo /\ log[k].b = end_geo
        /\ pc = "failed" => error \in {"DirectionsError", "IndexError"}
        /\ all_locations = <<start_geo, end_geo>>
        /\ Len(daily_schedule) = 2
        /\ SumDays(daily_schedule) = total_days

(* an itinerary returned for total_days = min_stay *)
C7_Witness ==
    /\ Returned
    /\ total_days = min_stay
    /\ max_stops > 0
    /\ Len(constraint_locations) > 0
    /\ Len(daily_schedule) = 2
    /\ Len(log) = 3

(* C8: a constraint whose geocoding fails is skipped: it adds no stop, the
   selection is not aborted, and the next constraint of the list is
   geocoded. *)
C8_FailedConstraintSkipped ==
    /\ \A k \in ConstraintCalls :
          ~log[k].ok =>
             LET j == k - 3
             IN /\ log[k].name = constraint_locations[j]
                /\ ~(pc = "failed" /\ k = Len(log))
                /\ j < Len(constraint_locations) =>
                      IF k < Len(log)
                      THEN /\ log[k + 1].op = "geocode"
                           /\ log[k + 1].name = constraint_locations[j + 1]
                      ELSE pc = "constraints" /\ ci = j + 1
    /\ Len(constraint_stops) <= Cardinality({k \in ConstraintCalls : log[k].ok})

(* an itinerary is returned whose first constraint failed to geocode and
   whose second constraint became a stop *)
C8_Witness ==
    /\ Returned
    /\ Len(log) >= 5
    /\ log[4].op = "geocode" /\ ~log[4].ok
    /\ log[5].op = "geocode" /\ log[5].ok
    /\ constraint_stops = <<log[5].a>>
    /\ log[5].a \in Range(intermediate_stops)

(* C9: the constraint stops are exactly the geocoded constraints with
   distance(start,stop) + distance(stop,end) <= 1.5 * distance(start,end),
   in the order of the list; equality is accepted. *)
C9_AcceptedIffWithinDetour ==
    LET answered(k) == log[k].ok /\ WithinDetour(log[k].a)
        kept == {k \in ConstraintCalls : answered(k)}
    IN /\ Len(constraint_stops) = Cardinality(kept)
       /\ \A k \in kept :
             constraint_stops[Cardinality({m \in kept : m <= k})] = log[k].a
       /\ \A i \in DOMAIN constraint_stops : WithinDetour(constraint_stops[i])

(* a constraint exactly on the bound was accepted *)
C9_Witness ==
    /\ start_geo # end_geo
    /\ \E i \in DOMAIN constraint_stops :
          2 * (_calculate_distance(start_geo, constraint_stops[i])
               + _calculate_distance(constraint_stops[i], end_geo))
             = 3 * _calculate_distance(start_geo, end_geo)

(* C10: a constraint that geocodes but fails the detour filter is not among
   the intermediate stops of the returned itinerary, whatever the nearby
   search returns (taken for valid parameters and distinct ends only). *)
C10_RejectedConstraintAbsent ==
    (Returned /\ ValidParams /\ start_geo # end_geo) =>
        \A k \in ConstraintCalls :
            (log[k].ok /\ ~WithinDetour(log[k].a))
                => log[k].a \notin Range(intermediate_stops)

(* the directions lookups of _generate_travel_suggestions made so far: they
   are the last entries of the log, one for each pair of consecutive
   locations up to the current one *)
TravelCallCount == IF pc = "travel" THEN leg - 1 ELSE leg
TravelCall(i) == log[Len(log) - TravelCallCount + i]

(* C11: when a directions lookup of the travel phase returns without raising,
   whatever its data (an empty result, a result without legs, an empty legs
   list, a leg without distance or duration), the assembly does not fail and
   a leg for that pair of locations is produced. *)
C11_AnsweredLookupYieldsLeg ==
    (ValidParams /\ start_geo # end_geo) =>
        /\ ~(pc = "failed" /\ error = "IndexError")
        /\ \A i \in 1..TravelCallCount :
               TravelCall(i).ok =>
                   \E j \in DOMAIN suggestions :
                       /\ suggestions[j].from = all_locations[i]
                       /\ suggestions[j].to = all_locations[i + 1]

(* C12: a directions lookup that raises does not end generate_itinerary: the
   call is never left with the error of a directions lookup. *)
C12_DirectionsErrorRecovered ==
    (ValidParams /\ start_geo # end_geo) =>
        \A k \in Calls("directions") :
            ~log[k].ok => ~(pc = "failed" /\ error = "DirectionsError")

(* C13: with a non-positive min_stay or a negative max_stops the call of
   generate_itinerary makes no lookup and ends, at once, in a validation
   error: it is at its entry or has failed with ValueError, with an empty
   log. *)
C13_InvalidParamsRaiseBeforeLookups ==
    (total_days >= 1 /\ (min_stay <= 0 \/ max_stops < 0)) =>
        /\ log = <<>>
        /\ pc \in {"call", "failed"}
        /\ pc = "failed" => error = "ValueError"

(* the messages of validate_itinerary_params *)
ParamMessages ==
    {"max_stops must be non-negative",
     "min_stay must be at least 1 day",
     "max_stops should not exceed 10 for reasonable performance"}

(* main has been left by the ValueError of validate_itinerary_params *)
ParamsRejected ==
    /\ pc = "failed"
    /\ error = "ValueError"
    /\ \E m \in ParamMessages : message = <<m>>

(* C14: once the command line main has applied validate_itinerary_params, it
   has raised ValueError exactly when max_stops < 0, min_stay < 1 or
   max_stops > 10, and has returned otherwise; when max_stops < 0 the message
   is the one about max_stops, whatever min_stay is. *)
C14_ParamsRejectedExactlyWhenInvalid ==
    (caller = "cli" /\ pc # "cli_params") =>
        /\ ParamsRejected <=>
               (max_stops < 0 \/ min_stay < 1 \/ max_stops > MaxStopsLimit)
        /\ max_stops < 0 => message = <<"max_stops must be non-negative">>

(* max_stops and min_stay both invalid: the message is the one of max_stops *)
C14_Witness ==
    /\ caller = "cli"
    /\ max_stops < 0
    /\ min_stay < 1
    /\ ParamsRejected
    /\ message = <<"max_stops must be non-negative">>

(* main has applied validate_dates: it went on to the call, or it was left
   by the ValueError of validate_dates *)
DatesValidated ==
    /\ caller = "cli"
    /\ \/ pc = "call"
       \/ pc = "failed" /\ ~ParamsRejected

(* C17: validate_dates either returns the two dates, the start strictly before
   the end and at least one whole day apart, or raises ValueError; whenever
   start >= end the message of the error contains "Start date must be before
   end date". *)
C17_DatesOrderedOrValueError ==
    DatesValidated =>
        \/ /\ pc = "call"
           /\ arg_start_date \in Times
           /\ arg_end_date \in Times
           /\ arg_start_date < arg_end_date
           /\ arg_end_date - arg_start_date >= 2
           /\ error = "none"
        \/ /\ pc = "failed"
           /\ error = "ValueError"
           /\ (/\ arg_start_date \in Times
               /\ arg_end_date \in Times
               /\ arg_start_date >= arg_end_date)
              => "Start date must be before end date" \in Range(message)

(* equal dates are refused with the message about the order *)
C17_Witness ==
    /\ DatesValidated
    /\ pc = "failed"
    /\ arg_start_date \in Times
    /\ arg_start_date = arg_end_date
    /\ "Start date must be before end date" \in Range(message)

(* C16: the entries of daily_schedule tile the trip back to back: the first
   starts on start_date (day 0), each ends at its start plus its day count,
   each next one starts on the end of the one before, and the last ends on
   start_date + total_days. *)
C16_ScheduleTilesTrip ==
    daily_schedule # <<>> =>
        LET n == Len(daily_schedule)
        IN /\ daily_schedule[1].start_date = 0
           /\ \A i \in 1..n :
                  daily_schedule[i].end_date =
                      daily_schedule[i].start_date + daily_schedule[i].days
           /\ \A i \in 1..(n - 1) :
                  daily_schedule[i + 1].start_date = daily_schedule[i].end_date
           /\ daily_schedule[n].end_date = total_days

(* a returned schedule of four entries of one day each *)
C16_Witness ==
    /\ Returned
    /\ Len(daily_schedule) = 4
    /\ \A i \in 1..4 : daily_schedule[i].days = 1
    /\ daily_schedule[3].start_date = 2
    /\ daily_schedule[4].end_date = total_days

(* C18: with n locations, base = max(min_stay, total_days // n) and
   remainder = total_days - base * n, every location but the last gets
   base + 1 days while the remainder is still positive (the first remainder
   ones) and base days otherwise, never fewer than base; the last gets base
   plus whatever is left of the remainder, positive, zero or negative. *)
C18_DayAllocation ==
    daily_schedule # <<>> =>
        LET n == Len(daily_schedule)
            base == Max(min_stay, total_days \div n)
            remainder == total_days - base * n
            given == Cardinality({i \in 1..(n - 1) : i <= remainder})
        IN /\ \A i \in 1..(n - 1) :
                  /\ daily_schedule[i].days =
                         IF i <= remainder THEN base + 1 ELSE base
                  /\ daily_schedule[i].days >= base
           /\ daily_schedule[n].days = base + (remainder - given)

(* a returned schedule whose last entry absorbed a negative remainder *)
C18_Witness ==
    /\ Returned
    /\ ValidParams
    /\ Len(daily_schedule) = 2
    /\ daily_schedule[1].days = min_stay
    /\ daily_schedule[2].days < min_stay
    /\ daily_schedule[2].days = total_days - min_stay

(* the candidates of the last search answer farther than 10000 m from both
   the start and the end *)
Qualifying ==
    {i \in DOMAIN search_answer :
        /\ _calculate_distance(search_answer[i], start_geo) > MinEndpointDistance
        /\ _calculate_distance(search_answer[i], end_geo) > MinEndpointDistance}

(* C19: the step that handles the answer of a slot's search adds to places
   the first candidate, in the order returned, whose distances from the start
   and from the end both exceed 10000 m, and nothing else; it adds nothing
   when no candidate qualifies, and makes no further lookup for the slot. *)
C19_FirstQualifyingCandidate ==
    [][pc = "pick" =>
          /\ places' =
                 IF Qualifying = {} THEN places
                 ELSE Append(places,
                             search_answer[CHOOSE i \in Qualifying :
                                               \A j \in Qualifying : i <= j])
          /\ log' = log]_vars

(* the first slot's answer held a candidate too close to an end before one
   that qualifies: that second one was taken, and the second slot is next *)
C19_Witness ==
    /\ pc = "places"
    /\ slot = 2
    /\ Len(search_answer) = 2
    /\ Qualifying = {2}
    /\ places = <<search_answer[2]>>

(* the rank of the search lookup at position k among the search lookups *)
SearchRank(k) == Cardinality({j \in Calls("search") : j <= k})

(* C20: every geocoding of a constraint precedes every nearby search; with
   remaining = capacity - accepted constraint stops, the search is made for
   the slots 1..remaining in turn, slot i at the point
   start + (end - start) * i / (remaining + 1), exactly remaining times by
   the time the stops are selected, and never when the accepted stops fill
   the capacity. *)
C20_ConstraintsThenRemainingSearches ==
    LET remaining == max_possible_stops - Len(constraint_stops)
    IN /\ \A k \in Calls("search") :
              /\ \A j \in Calls("geocode") : j < k
              /\ SearchRank(k) <= remaining
              /\ log[k].b = remaining + 1
              /\ log[k].a = start_geo * (remaining + 1)
                                + (end_geo - start_geo) * SearchRank(k)
       /\ all_locations # <<>> =>
              Cardinality(Calls("search")) = Max(remaining, 0)

(* capacity two, one constraint stop accepted: one search, at the midpoint *)
C20_Witness ==
    /\ Returned
    /\ max_possible_stops = 2
    /\ Len(constraint_stops) = 1
    /\ Cardinality(Calls("search")) = 1
    /\ \E k \in Calls("search") :
           /\ log[k].b = 2
           /\ log[k].a = start_geo + end_geo
           /\ k = Len(constraint_locations) + 4

(* the constraint geocoded at position k of the log was accepted *)
AcceptedCall(k) == log[k].ok /\ WithinDetour(log[k].a)

(* the answers of the accepted constraint lookups up to position k, in the
   order of the log *)
RECURSIVE AcceptedAnswers(_)
AcceptedAnswers(k) ==
    IF k <= 3 THEN <<>>
    ELSE IF k \in ConstraintCalls /\ AcceptedCall(k)
         THEN Append(AcceptedAnswers(k - 1), log[k].a)
         ELSE AcceptedAnswers(k - 1)

(* C21: the constraints are geocoded in input order, and a constraint is
   geocoded only while fewer than capacity constraint stops have been
   accepted before it; the accepted stops are kept in input order. *)
C21_AccumulationStopsAtCapacity ==
    /\ \A k \in ConstraintCalls :
          /\ log[k].name = constraint_locations[k - 3]
          /\ Cardinality({j \in ConstraintCalls : j < k /\ AcceptedCall(j)})
                 < max_possible_stops
    /\ constraint_stops = AcceptedAnswers(Len(log))
    /\ max_possible_stops > 0 => Len(constraint_stops) <= max_possible_stops

(* capacity one and two constraints: the first is accepted and the second is
   never geocoded *)
C21_Witness ==
    /\ Returned
    /\ max_possible_stops = 1
    /\ Len(constraint_locations) = 2
    /\ Cardinality(ConstraintCalls) = 1
    /\ Len(constraint_stops) = 1
    /\ intermediate_stops = constraint_stops

(* the stops in the order the selector produced them: the accepted constraint
   stops, then the gap-filled places *)
SelectorOrder == constraint_stops \o places

(* stop x lies strictly before stop y on the route: its
   distance(start, x) / distance(start, end) is smaller; no stop lies before
   another when start and end coincide *)
Before(x, y) ==
    /\ start_geo # end_geo
    /\ Abs(x - start_geo) < Abs(y - start_geo)

(* the place the p-th stop of the selector takes in a stable ascending sort *)
SortedIndex(p) ==
    Cardinality({q \in DOMAIN SelectorOrder :
                    \/ Before(SelectorOrder[q], SelectorOrder[p])
                    \/ /\ q <= p
                       /\ ~Before(SelectorOrder[p], SelectorOrder[q])})

(* C22: the intermediate stops of the assembled itinerary are in ascending
   order of route position, stops of equal position keep the order of the
   selector, and when start and end coincide the order of the selector is
   returned unchanged. *)
C22_StopsSortedStable ==
    (all_locations # <<>> /\ max_possible_stops > 0) =>
        /\ \A i, j \in DOMAIN intermediate_stops :
               i < j => ~Before(intermediate_stops[j], intermediate_stops[i])
        /\ \A p \in DOMAIN SelectorOrder :
               SortedIndex(p) <= Len(intermediate_stops) =>
                   intermediate_stops[SortedIndex(p)] = SelectorOrder[p]
        /\ start_geo = end_geo =>
               intermediate_stops = SubSeq(SelectorOrder, 1, Len(intermediate_stops))

(* two stops of equal position, on either side of the start, kept in the
   order of the selector although the second has the smaller latitude *)
C22_Witness ==
    /\ Returned
    /\ start_geo # end_geo
    /\ Len(intermediate_stops) = 2
    /\ intermediate_stops = SelectorOrder
    /\ intermediate_stops[1] > start_geo
    /\ intermediate_stops[2] < start_geo
    /\ ~Before(intermediate_stops[1], intermediate_stops[2])

(* C23: the route position distance(start, stop) / distance(start, end) of
   every intermediate stop of an assembled itinerary lies in [0, 1] (taken
   for valid parameters and distinct start and end). *)
C23_RoutePositionInUnitInterval ==
    (all_locations # <<>> /\ ValidParams /\ start_geo # end_geo) =>
        \A x \in Range(intermediate_stops) :
            LET position == route_position(start_geo, end_geo, x)
            IN /\ 0 <= position.num
               /\ position.num <= position.den

(* how often x occurs in the sequence q *)
Occurrences(q, x) == Cardinality({i \in DOMAIN q : q[i] = x})

(* C24: the truncation to capacity removes nothing: the accepted constraint
   stops and the gap-filled places together never exceed the capacity, and
   each of them appears in the intermediate stops of the assembled itinerary,
   as often as it was selected. *)
C24_TruncationRemovesNothing ==
    max_possible_stops > 0 =>
        /\ Len(constraint_stops) + Len(places) <= max_possible_stops
        /\ all_locations # <<>> =>
               /\ Len(intermediate_stops) = Len(constraint_stops) + Len(places)
               /\ \A x \in Range(constraint_stops) \cup Range(places) :
                      Occurrences(intermediate_stops, x)
                          = Occurrences(constraint_stops \o places, x)

(* capacity two, filled by one constraint stop and one gap-filled place *)
C24_Witness ==
    /\ Returned
    /\ max_possible_stops = 2
    /\ Len(constraint_stops) = 1
    /\ Len(places) = 1
    /\ Len(intermediate_stops) = 2
    /\ constraint_stops[1] \in Range(intermediate_stops)
    /\ places[1] \in Range(intermediate_stops)

(* C25: for min_stay >= 1 and max_stops >= 0 a schedule of n > 2 locations
   has n * min_stay <= total_days; whenever total_days >= 2 * min_stay every
   entry has at least min_stay days; total_days < n * min_stay happens only
   for n = 2 and total_days < 2 * min_stay, and then the first entry has
   min_stay days and the last total_days - min_stay, which is not negative. *)
C25_DaysCoverMinStay ==
    (ValidParams /\ daily_schedule # <<>>) =>
        LET n == Len(daily_schedule)
        IN /\ n > 2 => n * min_stay <= total_days
           /\ total_days >= 2 * min_stay =>
                  \A i \in 1..n : daily_schedule[i].days >= min_stay
           /\ total_days < n * min_stay =>
                  /\ n = 2
                  /\ intermediate_stops = <<>>
                  /\ total_days < 2 * min_stay
                  /\ daily_schedule[1].days = min_stay
                  /\ daily_schedule[2].days = total_days - min_stay
                  /\ daily_schedule[2].days >= 0

(* three locations and exactly min_stay days for each *)
C25_Witness ==
    /\ Returned
    /\ min_stay >= 1
    /\ Len(daily_schedule) = 3
    /\ total_days = 3 * min_stay
    /\ \A i \in 1..3 : daily_schedule[i].days = min_stay

(* C26: the step that handles a slot's search answer takes the first
   candidate that passes the two 10000 m endpoint checks also when that
   place is already an accepted constraint stop or the place of an earlier
   slot, and also when its detour exceeds 1.5 times the direct distance. *)
C26_GapFillingIgnoresStopsAndDetour ==
    [][pc = "pick" =>
          \A i \in Qualifying :
              (/\ \A j \in Qualifying : i <= j
               /\ \/ search_answer[i] \in Range(constraint_stops) \cup Range(places)
                  \/ ~WithinDetour(search_answer[i]))
              => places' = Append(places, search_answer[i])]_vars

(* a returned itinerary whose two intermediate stops are the same gap-filled
   place, a place whose detour exceeds 1.5 times the direct distance *)
C26_Witness ==
    /\ Returned
    /\ ValidParams
    /\ start_geo # end_geo
    /\ Len(places) = 2
    /\ places[1] = places[2]
    /\ intermediate_stops = places
    /\ ~WithinDetour(places[1])
====
